---------------------------- MODULE Spec2Model ----------------------------
(***************************************************************************)
(* Model of app/libs/tun2socks.go: the argument tokenizer                  *)
(* (parseCommandLine), flag resolution (flag.FlagSet.Parse on the session's *)
(* flag set), the log sink (logWriter.Write / GetLogMessages) and the      *)
(* session lifecycle (RunWarp, runServer, Shutdown).                       *)
(*                                                                         *)
(* Strings are sequences of atoms.  An atom is either one of the single    *)
(* characters the tokenizer's regular expression and the flag package      *)
(* distinguish ("-", " ", "=", the two quotes, ".", ":") or a maximal run  *)
(* of word characters (\w+), written as one TLA+ string.  Every character  *)
(* class used by the code treats all characters of an atom alike, so the   *)
(* atom sequence behaves exactly as the character sequence does.           *)
(***************************************************************************)
EXTENDS Integers, Sequences, FiniteSets, TLC

\* ------------------------------------------------------------------ bounds
MaxItems == 3      \* flag items in a generated argument string
MaxSignals == 1    \* SIGINT/SIGTERM deliveries in one run
MaxWriters == 3    \* concurrent host threads writing one log line each
MaxDrains == 2     \* GetLogMessages calls in one run of the log sink
MaxLines == 4      \* lines components write to the standard streams in one run

\* ----------------------------------------------------------------- strings
DQ == "\""
SQ == "'"
SP == " "
NonWord == {"-", SP, "=", DQ, SQ, ".", ":"}

\* \w in the regular expression of parseCommandLine
IsWord(a) == a \notin NonWord

\* ---------------------------------------------- parseCommandLine (regexp)
\* End (exclusive) of the maximal run from j of atoms satisfying the class:
\* "w" is \w, "ns" is [^ ], "ndq" is [^"], "nsq" is [^'].
InClass(cls, a) ==
    CASE cls = "w"   -> IsWord(a)
      [] cls = "ns"  -> a # SP
      [] cls = "ndq" -> a # DQ
      [] cls = "nsq" -> a # SQ

RECURSIVE RunEnd(_, _, _)
RunEnd(cls, s, j) ==
    IF j <= Len(s) /\ InClass(cls, s[j]) THEN RunEnd(cls, s, j + 1) ELSE j

\* ("[^"]*"|'[^']*'|[^ ]+) tried at position v, alternatives in order.
\* Result: the end (exclusive) of group 3, or 0 when no alternative matches.
ValueEnd(s, v) ==
    IF v > Len(s) THEN 0
    ELSE LET dq == RunEnd("ndq", s, v + 1)
             sq == RunEnd("nsq", s, v + 1)
             ns == RunEnd("ns", s, v)
         IN  IF s[v] = DQ /\ dq <= Len(s) THEN dq + 1
             ELSE IF s[v] = SQ /\ sq <= Len(s) THEN sq + 1
             ELSE IF ns > v THEN ns
             ELSE 0

\* One attempt of (--?\w+)([= ]("[^"]*"|'[^']*'|[^ ]+))? anchored at i.
MatchAt(s, i) ==
    LET j == IF i + 2 <= Len(s) /\ s[i + 1] = "-" /\ IsWord(s[i + 2])
             THEN i + 2 ELSE i + 1
        k == RunEnd("w", s, j)
        e == IF k <= Len(s) /\ s[k] \in {"=", SP} THEN ValueEnd(s, k + 1) ELSE 0
    IN  IF s[i] = "-" /\ k > j
        THEN [ok |-> TRUE, m1 |-> SubSeq(s, i, k - 1),
              m3 |-> IF e = 0 THEN << >> ELSE SubSeq(s, k + 1, e - 1),
              end |-> IF e = 0 THEN k ELSE e]
        ELSE [ok |-> FALSE, m1 |-> << >>, m3 |-> << >>, end |-> i]

\* re.FindAllStringSubmatch(argStr, -1): leftmost matches, left to right.
RECURSIVE FindAll(_, _)
FindAll(s, i) ==
    IF i > Len(s) THEN << >>
    ELSE LET m == MatchAt(s, i)
         IN  IF m.ok THEN <<m>> \o FindAll(s, m.end) ELSE FindAll(s, i + 1)

\* strings.Trim(value, `"'`)
RECURSIVE TrimLeft(_)
TrimLeft(s) == IF s # << >> /\ Head(s) \in {DQ, SQ} THEN TrimLeft(Tail(s)) ELSE s

RECURSIVE TrimRight(_)
TrimRight(s) ==
    IF s # << >> /\ s[Len(s)] \in {DQ, SQ}
    THEN TrimRight(SubSeq(s, 1, Len(s) - 1)) ELSE s

Trim(s) == TrimRight(TrimLeft(s))

RECURSIVE AppendMatches(_)
AppendMatches(ms) ==
    IF ms = << >> THEN << >>
    ELSE LET m == Head(ms)
         IN  (IF m.m3 # << >> THEN <<m.m1, Trim(m.m3)>> ELSE <<m.m1>>)
             \o AppendMatches(Tail(ms))

parseCommandLine(argStr) == AppendMatches(FindAll(argStr, 1))

\* ------------------------------------------------ flag set (lines 92-103)
\* The options registered on fs by fs.Bool / fs.String, with their defaults.
\* rtt is registered by flag.Int on the process-wide flag.CommandLine, not
\* on fs (line 101), so fs does not know it.
BoolFlags == {"v", "cfon", "gool", "scan"}
StringFlags == {"b", "e", "k", "country"}
RttDefault == 1000

DefaultBind == <<"127", ".", "0", ".", "0", ".", "1", ":", "8086">>

\* Mutant of FsDefaults: the endpoint's default is empty.
FsDefaultsNoEndpoint ==
    [v |-> FALSE, b |-> DefaultBind, e |-> << >>, k |-> <<"notset">>,
     country |-> << >>, cfon |-> FALSE, gool |-> FALSE, scan |-> FALSE]

FsDefaults ==
    [v |-> FALSE, b |-> DefaultBind, e |-> <<"notset">>, k |-> <<"notset">>,
     country |-> << >>, cfon |-> FALSE, gool |-> FALSE, scan |-> FALSE]

\* strconv.ParseBool
TrueStrs == {<<"1">>, <<"t">>, <<"T">>, <<"TRUE">>, <<"true">>, <<"True">>}
FalseStrs == {<<"0">>, <<"f">>, <<"F">>, <<"FALSE">>, <<"false">>, <<"False">>}

\* Position of the first "=" at atom index >= 2 of name, or 0.
RECURSIVE EqPos(_, _)
EqPos(name, i) ==
    IF i > Len(name) THEN 0
    ELSE IF name[i] = "=" THEN i ELSE EqPos(name, i + 1)

\* FlagSet.Parse(args) with ExitOnError: the loop over parseOne.  vals is
\* the record of the flag variables fs writes through.  err is "nil" when
\* parsing ends normally, "help" for -h/-help (exit status 0) and "fail"
\* for every other parse error (exit status 2).
RECURSIVE fsParse(_, _)
fsParse(args, vals) ==
    IF args = << >> THEN [err |-> "nil", vals |-> vals]
    ELSE
    LET s == Head(args)
        rest == Tail(args)
        minuses == IF Len(s) >= 2 /\ s[2] = "-" THEN 2 ELSE 1
        full == SubSeq(s, minuses + 1, Len(s))
        eq == EqPos(full, 2)
        hasEq == eq # 0
        name == IF hasEq THEN SubSeq(full, 1, eq - 1) ELSE full
        eqValue == IF hasEq THEN SubSeq(full, eq + 1, Len(full)) ELSE << >>
        opt == name[1]
    IN  IF Len(s) < 2 \/ s[1] # "-" THEN [err |-> "nil", vals |-> vals]
        ELSE IF s = <<"-", "-">> THEN [err |-> "nil", vals |-> vals]
        ELSE IF full = << >> \/ full[1] \in {"-", "="}
             THEN [err |-> "fail", vals |-> vals]
        ELSE IF Len(name) # 1 \/ opt \notin (BoolFlags \cup StringFlags)
             THEN [err |-> IF name \in {<<"help">>, <<"h">>} THEN "help" ELSE "fail",
                   vals |-> vals]
        ELSE IF opt \in BoolFlags
             THEN IF ~hasEq THEN fsParse(rest, [vals EXCEPT ![opt] = TRUE])
                  ELSE IF eqValue \in TrueStrs
                       THEN fsParse(rest, [vals EXCEPT ![opt] = TRUE])
                  ELSE IF eqValue \in FalseStrs
                       THEN fsParse(rest, [vals EXCEPT ![opt] = FALSE])
                  ELSE [err |-> "fail", vals |-> vals]
        ELSE IF hasEq THEN fsParse(rest, [vals EXCEPT ![opt] = eqValue])
        ELSE IF rest # << >>
             THEN fsParse(Tail(rest), [vals EXCEPT ![opt] = Head(rest)])
        ELSE [err |-> "fail", vals |-> vals]

\* strings.Replace(s, old, new, -1) on atom sequences.  The bind addresses
\* of the inputs write every octet as one atom, so an occurrence of
\* "0.0.0.0" always starts and ends on atom boundaries.
IsPrefix(p, s) == Len(p) <= Len(s) /\ SubSeq(s, 1, Len(p)) = p

RECURSIVE Replace(_, _, _)
Replace(s, old, new) ==
    IF s = << >> THEN << >>
    ELSE IF IsPrefix(old, s)
         THEN new \o Replace(SubSeq(s, Len(old) + 1, Len(s)), old, new)
    ELSE <<Head(s)>> \o Replace(Tail(s), old, new)

AnyAddr == <<"0", ".", "0", ".", "0", ".", "0">>
Loopback == <<"127", ".", "0", ".", "0", ".", "1">>

\* ------------------------------------------------------------------ inputs
\* The host composes an argument string from flag items; an item is the
\* option it names, the value it supplies (as text; "true" for a bare
\* boolean flag) and the text it contributes.  The items of one string are joined with
\* single spaces.
WildBind == AnyAddr \o <<":", "1080">>
CleanIP == <<"10", ".", "0", ".", "0", ".", "1">>
Spaced == CleanIP \o <<SP, "backup">>

BoolItem(o) == [opt |-> o, val |-> <<"true">>, text |-> <<"-", o>>, valid |-> TRUE]

ValidItems ==
    {BoolItem(o) : o \in BoolFlags} \cup
    { [opt |-> "b", val |-> WildBind, text |-> <<"-", "b", SP>> \o WildBind, valid |-> TRUE],
      [opt |-> "e", val |-> CleanIP, text |-> <<"-", "e", SP>> \o CleanIP, valid |-> TRUE],
      [opt |-> "e", val |-> Spaced, text |-> <<"-", "e", SP, DQ>> \o Spaced \o <<DQ>>, valid |-> TRUE],
      [opt |-> "k", val |-> <<"KEY">>, text |-> <<"-", "-", "k", "=", "KEY">>, valid |-> TRUE],
      [opt |-> "k", val |-> <<"my", SP, "key">>, text |-> <<"-", "k", SP, SQ, "my", SP, "key", SQ>>, valid |-> TRUE],
      [opt |-> "country", val |-> <<"US">>, text |-> <<"-", "country", SP, "US">>, valid |-> TRUE],
      [opt |-> "rtt", val |-> <<"500">>, text |-> <<"-", "rtt", SP, "500">>, valid |-> TRUE] }

InvalidItems ==
    { [opt |-> "bogus", val |-> <<"true">>, text |-> <<"-", "bogus">>, valid |-> FALSE],
      [opt |-> "rtt", val |-> <<"abc">>, text |-> <<"-", "rtt", SP, "abc">>, valid |-> FALSE],
      [opt |-> "e", val |-> Spaced, text |-> <<"-", "e", SP, DQ>> \o Spaced, valid |-> FALSE] }

Items == ValidItems \cup InvalidItems

ItemSeqs(S, n) == UNION {[1..m -> S] : m \in 0..n}

RECURSIVE Render(_)
Render(items) ==
    IF items = << >> THEN << >>
    ELSE IF Len(items) = 1 THEN items[1].text
    ELSE items[1].text \o <<SP>> \o Render(Tail(items))

\* The configuration the items ask for: the defaults, overridden item by
\* item (a repeated option keeps its last value).
FullDefaults ==
    [v |-> FALSE, b |-> DefaultBind, e |-> <<"notset">>, k |-> <<"notset">>,
     country |-> << >>, cfon |-> FALSE, gool |-> FALSE, scan |-> FALSE,
     rtt |-> 1000]

\* The integer a decimal value denotes (strconv.ParseInt).
IntOf(val) == IF val = <<"500">> THEN 500 ELSE IF val = <<"1000">> THEN 1000 ELSE 0

ValueOf(item) ==
    IF item.opt \in BoolFlags THEN item.val \in TrueStrs
    ELSE IF item.opt = "rtt" THEN IntOf(item.val)
    ELSE item.val

RECURSIVE Requested(_, _)
Requested(items, cfg) ==
    IF items = << >> THEN cfg
    ELSE Requested(Tail(items), [cfg EXCEPT ![items[1].opt] = ValueOf(items[1])])

\* ------------------------------------------------------------------- state
\* The host threads that call RunWarp, each once, in any interleaving.
Calls == {1, 2}

VARIABLES
    supplied,     \* per call: the flag items the host composed argStr from
    argStr,       \* per call: RunWarp's argStr argument
    pc,           \* per call: where RunWarp stands, or how it ended the process
    args,         \* per call: local args (line 88)
    fsVals,       \* per call: the flag variables of its fs (lines 92-100, 103)
    gFlags,       \* whose fs the globals verbose .. scan point into (0: nil)
    rttDefined,   \* flag.CommandLine has "rtt" registered
    rtt,          \* what the global rtt points at: <<n>>, or << >> for nil
    cancelFunc,   \* the call whose context the global cancelFunc cancels (0: nil)
    ctxDone,      \* per call: its ctx is cancelled
    wg,           \* the counter of the global sync.WaitGroup
    rs,           \* per call: where its runServer goroutine stands
    tun,          \* per call: where the goroutine of lines 145-150 stands
    tunArgs,      \* per call: <<arguments of its app.RunWarp call>>, or << >>
    lwipOpts,     \* per call: <<options of its lwip.Start call>>, or << >>
    stops,        \* per call: lwip.Stop calls completed by its runServer
    sigReg,       \* calls whose sigCh is registered with signal.Notify
    sigBuf,       \* per call: signals buffered in sigCh (capacity 1)
    sigCount,     \* signals the OS has delivered to the process
    sigRunning,   \* per call: a signal arrived while its session was Running
    via,          \* per call: the select case RunWarp took
    sd,           \* where the host's Shutdown call stands
    sdNoSession,  \* no session was active when Shutdown was last invoked
    sdEarly,      \* Shutdown last found cancelFunc nil with a session starting
    proc,         \* "up", or how the process ended
    logMessages,  \* the global log buffer
    mu,           \* holder of the global mutex: 0 unlocked, w writer w, -1 reader
    wr,           \* per host writer: where its logWriter.Write call stands
    dr,           \* where the host's GetLogMessages call stands
    drained,      \* the results of the completed GetLogMessages calls
    acquired,     \* the host writers in the order their Write calls locked mu
    logs,         \* the local logs of the GetLogMessages call (line 180)
    stdout,       \* the call whose pipe os.Stdout and os.Stderr write to (0: none)
    reader,       \* per call: where the goroutine of lines 75-83 stands
    pipe,         \* per call: the lines written to its pipe and not yet scanned
    written       \* every line written to os.Stdout or os.Stderr so far

vars == <<supplied, argStr, pc, args, fsVals, gFlags, rttDefined, rtt,
          cancelFunc, ctxDone, wg, rs, tun, tunArgs, lwipOpts, stops,
          sigReg, sigBuf, sigCount, sigRunning, via, sd, sdNoSession, sdEarly,
          proc,
          logMessages, mu, wr, dr, drained, acquired, logs, stdout, reader,
          pipe, written>>

inputVars == <<supplied, argStr>>
flagVars == <<fsVals, gFlags, rttDefined, rtt>>
ctxVars == <<cancelFunc, ctxDone, wg>>
engineVars == <<tunArgs, lwipOpts, stops>>
sigVars == <<sigReg, sigBuf, sigCount, sigRunning>>
sdVars == <<sd, sdNoSession, sdEarly>>
sinkVars == <<mu, wr, dr, drained, acquired, logs>>
pipeVars == <<stdout, reader, pipe, written>>

Writers == 1..MaxWriters

\* The caller's TUN file descriptor.
TunFd(c) == c + 2

\* The session of call c is in the supervisor's Running state: its
\* background task is dispatched and shutdown has not begun.
Running(c) == pc[c] \in {"notify", "select"} /\ ~ctxDone[c]

\* The session of call c is in the supervisor's Starting state: RunWarp is
\* in progress and has not dispatched runServer yet.
Starting(c) == pc[c] \in {"rttcheck", "rttset", "parse", "launch"}

\* A session is active: a RunWarp call is in progress.
Active(c) == pc[c] \notin {"idle", "returned"}

\* RunWarp has resolved its configuration (fs.Parse returned nil).
PastParse == {"launch", "notify", "select", "cancel", "wait", "returned"}

\* -------------------------------------------------------------- log sink
\* logWriter.Write between mu.Lock() and the deferred mu.Unlock().
Write(buf, bytes) == Append(buf, bytes)

\* One log.Println / log.Fatal line written by the session's own code: a
\* whole logWriter.Write call, which runs only while it holds mu.
Log(line) == mu = 0 /\ logMessages' = Write(logMessages, line)

\* strings.Join(logMessages, "\n")
RECURSIVE Join(_)
Join(buf) ==
    IF buf = << >> THEN << >>
    ELSE IF Len(buf) = 1 THEN <<buf[1]>>
    ELSE <<buf[1], "\n">> \o Join(Tail(buf))

\* ------------------------------------------------------------------ RunWarp
\* Lines 65-100: redirect the streams, chdir, tokenize, and make a new flag
\* set, at whose variables the globals verbose .. scan now point.  os.Chdir
\* may fail, and log.Fatal then logs and exits with status 1.
Begin(c) ==
    /\ proc = "up" /\ pc[c] = "idle"
    /\ \/ /\ args' = [args EXCEPT ![c] = parseCommandLine(argStr[c])]
          /\ fsVals' = [fsVals EXCEPT ![c] = FsDefaults]
          /\ gFlags' = c
          /\ pc' = [pc EXCEPT ![c] = "rttcheck"]
          /\ UNCHANGED <<proc, logMessages>>
       \/ /\ Log("Error changing to 'main' directory")
          /\ proc' = "fatal"
          /\ pc' = [pc EXCEPT ![c] = "fatal"]
          /\ UNCHANGED <<args, fsVals, gFlags>>
    /\ stdout' = c
    /\ reader' = [reader EXCEPT ![c] = "scanning"]
    /\ UNCHANGED <<inputVars, pipe, written, rttDefined, rtt, ctxVars, rs, tun,
                   engineVars, sigVars, via, sdVars, sinkVars>>

\* Line 101, flag.Int on flag.CommandLine, first half (FlagSet.Var reads
\* formal[name]): a name that is already registered panics.
FlagIntLookup(c) ==
    /\ proc = "up" /\ pc[c] = "rttcheck"
    /\ IF rttDefined
       THEN proc' = "panic" /\ pc' = [pc EXCEPT ![c] = "panic"]
       ELSE proc' = proc /\ pc' = [pc EXCEPT ![c] = "rttset"]
    /\ UNCHANGED <<inputVars, pipeVars, args, flagVars, ctxVars, rs, tun, engineVars,
                   sigVars, via, sdVars, logMessages, sinkVars>>

\* Line 101, second half: formal[name] is written and the global rtt takes
\* the new variable, which holds the default.  Nothing parses CommandLine.
FlagIntStore(c) ==
    /\ proc = "up" /\ pc[c] = "rttset"
    /\ rttDefined' = TRUE
    /\ rtt' = <<RttDefault>>
    /\ pc' = [pc EXCEPT ![c] = "parse"]
    /\ UNCHANGED <<inputVars, pipeVars, args, fsVals, gFlags, ctxVars, rs, tun,
                   engineVars, sigVars, via, sdVars, proc, logMessages, sinkVars>>

\* Mutant of Parse: the flag set is ContinueOnError and the error is dropped.
ParseContinue(c) ==
    /\ proc = "up" /\ pc[c] = "parse"
    /\ fsVals' = [fsVals EXCEPT ![c] = fsParse(args[c], fsVals[c]).vals]
    /\ pc' = [pc EXCEPT ![c] = "launch"]
    /\ UNCHANGED <<inputVars, pipeVars, args, gFlags, rttDefined, rtt, ctxVars, rs, tun,
                   engineVars, sigVars, via, sdVars, proc, logMessages, sinkVars>>

\* rtt registered on fs (fs.Int) instead of on flag.CommandLine: fs.Parse
\* takes -rtt N and stores N in the variable the global rtt points at.
ParseRttOnFs(c) ==
    LET RECURSIVE WithoutRtt(_)
        WithoutRtt(a) ==
            IF a = << >> THEN << >>
            ELSE IF Head(a) = <<"-", "rtt">> /\ Len(a) >= 2
                 THEN WithoutRtt(Tail(Tail(a)))
                 ELSE <<Head(a)>> \o WithoutRtt(Tail(a))
        given == {i \in 1..(Len(args[c]) - 1) : args[c][i] = <<"-", "rtt">>}
        last == CHOOSE i \in given : \A j \in given : j <= i
        r == fsParse(WithoutRtt(args[c]), fsVals[c])
    IN  /\ proc = "up" /\ pc[c] = "parse"
        /\ IF r.err = "nil"
           THEN /\ fsVals' = [fsVals EXCEPT ![c] = r.vals]
                /\ rtt' = IF given = {} THEN rtt ELSE <<IntOf(args[c][last + 1])>>
                /\ pc' = [pc EXCEPT ![c] = "launch"]
                /\ proc' = proc
           ELSE /\ proc' = IF r.err = "help" THEN "help" ELSE "usage"
                /\ pc' = [pc EXCEPT ![c] = proc']
                /\ fsVals' = fsVals
                /\ rtt' = rtt
        /\ UNCHANGED <<inputVars, pipeVars, args, gFlags, rttDefined, ctxVars, rs,
                       tun, engineVars, sigVars, via, sdVars, logMessages,
                       sinkVars>>

\* Line 103: fs.Parse(args).  fs is ExitOnError: -h/-help exits with status
\* 0, any other parse error with status 2.
Parse(c) ==
    /\ proc = "up" /\ pc[c] = "parse"
    /\ LET r == fsParse(args[c], fsVals[c])
       IN  IF r.err = "nil"
           THEN /\ fsVals' = [fsVals EXCEPT ![c] = r.vals]
                /\ pc' = [pc EXCEPT ![c] = "launch"]
                /\ proc' = proc
           ELSE /\ proc' = IF r.err = "help" THEN "help" ELSE "usage"
                /\ pc' = [pc EXCEPT ![c] = proc']
                /\ fsVals' = fsVals
    /\ UNCHANGED <<inputVars, pipeVars, args, gFlags, rttDefined, rtt, ctxVars, rs, tun,
                   engineVars, sigVars, via, sdVars, logMessages, sinkVars>>

\* Lines 109-114: the context, the global cancelFunc, wg.Add(1) and the
\* dispatch of runServer.
Launch(c) ==
    /\ proc = "up" /\ pc[c] = "launch"
    /\ cancelFunc' = c
    /\ wg' = wg + 1
    /\ rs' = [rs EXCEPT ![c] = "start"]
    /\ pc' = [pc EXCEPT ![c] = "notify"]
    /\ UNCHANGED <<inputVars, pipeVars, args, flagVars, ctxDone, tun, engineVars,
                   sigVars, via, sdVars, proc, logMessages, sinkVars>>

\* Lines 117-118: the signal channel is registered.
Notify(c) ==
    /\ proc = "up" /\ pc[c] = "notify"
    /\ sigReg' = sigReg \cup {c}
    /\ pc' = [pc EXCEPT ![c] = "select"]
    /\ UNCHANGED <<inputVars, pipeVars, args, flagVars, ctxVars, rs, tun, engineVars,
                   sigBuf, sigCount, sigRunning, via, sdVars, proc,
                   logMessages, sinkVars>>

\* Lines 121-123: the select receives from sigCh and logs.
SelectSignal(c) ==
    /\ proc = "up" /\ pc[c] = "select" /\ sigBuf[c] > 0
    /\ sigBuf' = [sigBuf EXCEPT ![c] = 0]
    /\ Log("Shutting down server...")
    /\ via' = [via EXCEPT ![c] = "signal"]
    /\ pc' = [pc EXCEPT ![c] = "cancel"]
    /\ UNCHANGED <<inputVars, pipeVars, args, flagVars, ctxVars, rs, tun, engineVars,
                   sigReg, sigCount, sigRunning, sdVars, proc, sinkVars>>

\* Line 124: cancelFunc(), whatever the global holds now.
CancelOnSignal(c) ==
    /\ proc = "up" /\ pc[c] = "cancel"
    /\ ctxDone' = [ctxDone EXCEPT ![cancelFunc] = TRUE]
    /\ pc' = [pc EXCEPT ![c] = "wait"]
    /\ UNCHANGED <<inputVars, pipeVars, args, flagVars, cancelFunc, wg, rs, tun,
                   engineVars, sigVars, via, sdVars, proc, logMessages, sinkVars>>

\* Mutant of SelectDone: the select has a default case and does not block.
SelectDoneNoBlock(c) ==
    /\ proc = "up" /\ pc[c] = "select"
    /\ via' = [via EXCEPT ![c] = "ctx"]
    /\ pc' = [pc EXCEPT ![c] = "wait"]
    /\ UNCHANGED <<inputVars, pipeVars, args, flagVars, ctxVars, rs, tun, engineVars,
                   sigVars, sdVars, proc, logMessages, sinkVars>>

\* Line 125: the select sees ctx.Done().
SelectDone(c) ==
    /\ proc = "up" /\ pc[c] = "select" /\ ctxDone[c]
    /\ via' = [via EXCEPT ![c] = "ctx"]
    /\ pc' = [pc EXCEPT ![c] = "wait"]
    /\ UNCHANGED <<inputVars, pipeVars, args, flagVars, ctxVars, rs, tun, engineVars,
                   sigVars, sdVars, proc, logMessages, sinkVars>>

\* Mutant of WaitReturn: wg.Wait() is missing.
WaitReturnNoWait(c) ==
    /\ proc = "up" /\ pc[c] = "wait"
    /\ Log("Server shut down gracefully.")
    /\ pc' = [pc EXCEPT ![c] = "returned"]
    /\ UNCHANGED <<inputVars, pipeVars, args, flagVars, ctxVars, rs, tun, engineVars,
                   sigVars, via, sdVars, proc, sinkVars>>

\* Lines 130-132: wg.Wait() returns when the counter is zero; log; return.
WaitReturn(c) ==
    /\ proc = "up" /\ pc[c] = "wait" /\ wg = 0
    /\ Log("Server shut down gracefully.")
    /\ pc' = [pc EXCEPT ![c] = "returned"]
    /\ UNCHANGED <<inputVars, pipeVars, args, flagVars, ctxVars, rs, tun, engineVars,
                   sigVars, via, sdVars, proc, sinkVars>>

\* ---------------------------------------------------------------- runServer
\* The bind address handed on as it is.
Socks5ServerAsIs(bind) == bind

\* Line 154: the SOCKS server address handed to the forwarding engine.
Socks5Server(bind) == Replace(bind, AnyAddr, Loopback)

\* Lines 145-160: the goroutine that will call app.RunWarp is started, and
\* lwip.Start is called with the options built from *bindAddress.
StartEngines(c) ==
    /\ proc = "up" /\ rs[c] = "start"
    /\ tun' = [tun EXCEPT ![c] = "spawned"]
    /\ lwipOpts' = [lwipOpts EXCEPT ![c] =
           << [TunFd |-> TunFd(c), Socks5Server |-> Socks5Server(fsVals[gFlags].b),
               FakeIPRange |-> "24.0.0.0/8", MTU |-> 0,
               EnableIPv6 |-> TRUE, AllowLan |-> TRUE] >>]
    /\ rs' = [rs EXCEPT ![c] = "waitctx"]
    /\ UNCHANGED <<inputVars, pipeVars, pc, args, flagVars, ctxVars, tunArgs, stops,
                   sigVars, via, sdVars, proc, logMessages, sinkVars>>

\* The deferred cleanup running without the wait of line 163.
LwipStopNoWait(c) ==
    /\ proc = "up" /\ rs[c] = "waitctx"
    /\ stops' = [stops EXCEPT ![c] = @ + 1]
    /\ rs' = [rs EXCEPT ![c] = "stopped"]
    /\ UNCHANGED <<inputVars, pipeVars, pc, args, flagVars, ctxVars, tun, tunArgs,
                   lwipOpts, sigVars, via, sdVars, proc, logMessages, sinkVars>>

\* Lines 163, 138: <-ctx.Done() returns and the deferred cleanup calls
\* lwip.Stop(), which returns.
LwipStop(c) ==
    /\ proc = "up" /\ rs[c] = "waitctx" /\ ctxDone[c]
    /\ stops' = [stops EXCEPT ![c] = @ + 1]
    /\ rs' = [rs EXCEPT ![c] = "stopped"]
    /\ UNCHANGED <<inputVars, pipeVars, pc, args, flagVars, ctxVars, tun, tunArgs,
                   lwipOpts, sigVars, via, sdVars, proc, logMessages, sinkVars>>

\* Lines 139-141: the cleanup is logged, then the deferred wg.Done() runs
\* and the goroutine ends.
CleanupDone(c) ==
    /\ proc = "up" /\ rs[c] = "stopped"
    /\ Log("Cleanup done, exiting runServer goroutine.")
    /\ wg' = wg - 1
    /\ rs' = [rs EXCEPT ![c] = "exited"]
    /\ UNCHANGED <<inputVars, pipeVars, pc, args, flagVars, cancelFunc, ctxDone, tun,
                   engineVars, sigVars, via, sdVars, proc, sinkVars>>

\* ------------------------------------------------ the tunnel engine's task
\* Line 146: the globals are dereferenced and app.RunWarp is called.
TunnelCall(c) ==
    /\ proc = "up" /\ tun[c] = "spawned"
    /\ tunArgs' = [tunArgs EXCEPT ![c] = << [cfg |-> fsVals[gFlags], rtt |-> rtt] >>]
    /\ tun' = [tun EXCEPT ![c] = "running"]
    /\ UNCHANGED <<inputVars, pipeVars, pc, args, flagVars, ctxVars, rs, lwipOpts, stops,
                   sigVars, via, sdVars, proc, logMessages, sinkVars>>

\* Mutant of TunnelReturn: an error of the tunnel engine cancels the session.
TunnelReturnFatal(c) ==
    /\ proc = "up" /\ tun[c] = "running"
    /\ \/ /\ tun' = [tun EXCEPT ![c] = "finished"]
          /\ UNCHANGED <<logMessages, ctxDone>>
       \/ /\ tun' = [tun EXCEPT ![c] = "failed"]
          /\ Log("tunnel engine error")
          /\ ctxDone' = [ctxDone EXCEPT ![cancelFunc] = TRUE]
    /\ UNCHANGED <<inputVars, pipeVars, pc, args, flagVars, cancelFunc, wg, rs,
                   engineVars, sigVars, via, sdVars, proc, sinkVars>>

\* Lines 146-149: app.RunWarp returns, at a time of its choosing, nil or an
\* error; an error is logged.
TunnelReturn(c) ==
    /\ proc = "up" /\ tun[c] = "running"
    /\ \/ tun' = [tun EXCEPT ![c] = "finished"] /\ logMessages' = logMessages
       \/ tun' = [tun EXCEPT ![c] = "failed"] /\ Log("tunnel engine error")
    /\ UNCHANGED <<inputVars, pipeVars, pc, args, flagVars, ctxVars, rs, engineVars,
                   sigVars, via, sdVars, proc, sinkVars>>

\* ------------------------------------------------------------- environment
\* The OS delivers SIGINT or SIGTERM.  With a channel registered the signal
\* is queued on every registered channel (dropped where the buffer is
\* full).  With none registered the runtime's default applies: the process
\* dies, or, where the embedding host owns the signal, nothing happens here.
Signal ==
    /\ proc = "up" /\ sigCount < MaxSignals
    /\ sigCount' = sigCount + 1
    /\ sigRunning' = [c \in Calls |-> sigRunning[c] \/ Running(c)]
    /\ IF sigReg # {}
       THEN /\ sigBuf' = [c \in Calls |-> IF c \in sigReg THEN 1 ELSE sigBuf[c]]
            /\ proc' = proc
       ELSE /\ sigBuf' = sigBuf
            /\ proc' \in {"up", "signal"}
    /\ UNCHANGED <<inputVars, pipeVars, pc, args, flagVars, ctxVars, rs, tun, engineVars,
                   sigReg, via, sdVars, logMessages, sinkVars>>

\* ----------------------------------------------------------------- Shutdown
\* os.Exit(0) placed after the if block instead of inside it.
ShutdownCheckExits ==
    /\ proc = "up" /\ sd = "idle"
    /\ sdNoSession' = (\A c \in Calls : ~Active(c))
    /\ sdEarly' = (cancelFunc = 0 /\ \E c \in Calls : Starting(c))
    /\ sd' = IF cancelFunc # 0 THEN "cancel" ELSE "exit"
    /\ UNCHANGED <<inputVars, pipeVars, pc, args, flagVars, ctxVars, rs, tun, engineVars,
                   sigVars, via, proc, logMessages, sinkVars>>

\* Line 168: the nil check.  With cancelFunc nil the call returns at once.
ShutdownCheck ==
    /\ proc = "up" /\ sd = "idle"
    /\ sdNoSession' = (\A c \in Calls : ~Active(c))
    /\ sdEarly' = (cancelFunc = 0 /\ \E c \in Calls : Starting(c))
    /\ sd' = IF cancelFunc # 0 THEN "cancel" ELSE "idle"
    /\ UNCHANGED <<inputVars, pipeVars, pc, args, flagVars, ctxVars, rs, tun, engineVars,
                   sigVars, via, proc, logMessages, sinkVars>>

\* Line 169: cancelFunc().
ShutdownCancel ==
    /\ proc = "up" /\ sd = "cancel"
    /\ ctxDone' = [ctxDone EXCEPT ![cancelFunc] = TRUE]
    /\ sd' = "exit"
    /\ UNCHANGED <<inputVars, pipeVars, pc, args, flagVars, cancelFunc, wg, rs, tun,
                   engineVars, sigVars, via, sdNoSession, sdEarly, proc,
                   logMessages, sinkVars>>

\* Line 170: os.Exit(0).
ShutdownExit ==
    /\ proc = "up" /\ sd = "exit"
    /\ proc' = "shutdown"
    /\ UNCHANGED <<inputVars, pipeVars, pc, args, flagVars, ctxVars, rs, tun, engineVars,
                   sigVars, via, sdVars, logMessages, sinkVars>>

\* ------------------------------------------- the log sink, called by hosts
sessionVars == <<inputVars, pipeVars, pc, args, flagVars, ctxVars, rs, tun, engineVars,
                 sigVars, via, sdVars, proc>>

\* The distinct line writer w writes.
Line(w) == ToString(w)

\* Write entered without taking the mutex.
WriteLockNoMutex(w) ==
    /\ proc = "up" /\ wr[w] = "idle"
    /\ mu' = mu
    /\ wr' = [wr EXCEPT ![w] = "locked"]
    /\ acquired' = Append(acquired, w)
    /\ UNCHANGED <<sessionVars, logMessages, dr, drained, logs>>

\* Line 42: mu.Lock().
WriteLock(w) ==
    /\ proc = "up" /\ wr[w] = "idle" /\ mu = 0
    /\ mu' = w
    /\ wr' = [wr EXCEPT ![w] = "locked"]
    /\ acquired' = Append(acquired, w)
    /\ UNCHANGED <<sessionVars, logMessages, dr, drained, logs>>

\* Line 44.
WriteAppend(w) ==
    /\ proc = "up" /\ wr[w] = "locked"
    /\ logMessages' = Write(logMessages, Line(w))
    /\ wr' = [wr EXCEPT ![w] = "appended"]
    /\ UNCHANGED <<sessionVars, mu, dr, drained, acquired, logs>>

\* Lines 43, 45: return, running the deferred mu.Unlock().
WriteUnlock(w) ==
    /\ proc = "up" /\ wr[w] = "appended"
    /\ mu' = 0
    /\ wr' = [wr EXCEPT ![w] = "done"]
    /\ UNCHANGED <<sessionVars, logMessages, dr, drained, acquired, logs>>

\* Line 175: mu.Lock() of GetLogMessages.  The result records whether every
\* writer had finished when the call was made.
DrainLock ==
    /\ proc = "up" /\ dr = "idle" /\ mu = 0
    /\ Len(drained) < MaxDrains
    /\ mu' = -1
    /\ dr' = IF \A w \in Writers : wr[w] = "done" THEN "lockedAfter" ELSE "locked"
    /\ UNCHANGED <<sessionVars, logMessages, wr, drained, acquired, logs>>

\* Mutant of Cleared: line 181 is missing and the buffer is kept.
Kept(buf) == buf

\* Lines 177-182: what GetLogMessages returns, and what it leaves buffered.
Logs(buf) == IF Len(buf) = 0 THEN << >> ELSE Join(buf)
Cleared(buf) == << >>

\* Lines 177-180: an empty buffer returns "" at once, otherwise the entries
\* are joined into the local logs.
DrainJoin ==
    /\ proc = "up" /\ dr \in {"locked", "lockedAfter"}
    /\ IF Len(logMessages) = 0
       THEN /\ drained' = Append(drained, [logs |-> Logs(logMessages),
                                           after |-> dr = "lockedAfter"])
            /\ dr' = "taken"
            /\ logs' = logs
       ELSE /\ logs' = Logs(logMessages)
            /\ dr' = IF dr = "lockedAfter" THEN "joinedAfter" ELSE "joined"
            /\ drained' = drained
    /\ UNCHANGED <<sessionVars, logMessages, mu, wr, acquired>>

\* Lines 181-182: the buffer is cleared and the joined text returned.
DrainClear ==
    /\ proc = "up" /\ dr \in {"joined", "joinedAfter"}
    /\ logMessages' = Cleared(logMessages)
    /\ drained' = Append(drained, [logs |-> logs, after |-> dr = "joinedAfter"])
    /\ dr' = "taken"
    /\ logs' = << >>
    /\ UNCHANGED <<sessionVars, mu, wr, acquired>>

\* Line 176: the deferred mu.Unlock().
DrainUnlock ==
    /\ proc = "up" /\ dr = "taken"
    /\ mu' = 0
    /\ dr' = "idle"
    /\ UNCHANGED <<sessionVars, logMessages, wr, drained, acquired, logs>>

\* ------------------------------------------------------ redirected streams
\* bufio.MaxScanTokenSize: the size the buffer of a bufio.Scanner may grow
\* to.  The buffer has to hold the line and its newline.
MaxScanTokenSize == 65536

\* The lengths, in bytes without the newline, of the lines written.
LineLens == {1, MaxScanTokenSize - 1, MaxScanTokenSize}

ScannerErrLine ==
    [text |-> "There was an error with the scanner bufio.Scanner: token too long",
     len |-> 65]

\* A component writes one complete line to os.Stdout or os.Stderr, which
\* both are the write end of the pipe of the latest RunWarp call (lines
\* 68-70).  The pipe is never closed.
StdWrite ==
    /\ proc = "up" /\ stdout # 0
    /\ Len(written) < MaxLines
    /\ \E n \in LineLens :
          LET line == [text |-> ToString(Len(written) + 1), len |-> n]
          IN  /\ pipe' = [pipe EXCEPT ![stdout] = Append(@, line)]
              /\ written' = Append(written, line)
    /\ UNCHANGED <<inputVars, stdout, reader, pc, args, flagVars, ctxVars, rs,
                   tun, engineVars, sigVars, via, sdVars, proc, logMessages,
                   sinkVars>>

\* Lines 77-79: scanner.Scan() returns true with the next line, newline
\* dropped, and logger.Write appends it as one entry.
ReaderAppend(c) ==
    /\ proc = "up" /\ reader[c] = "scanning"
    /\ pipe[c] # << >> /\ Head(pipe[c]).len < MaxScanTokenSize
    /\ Log(Head(pipe[c]).text)
    /\ pipe' = [pipe EXCEPT ![c] = Tail(@)]
    /\ UNCHANGED <<inputVars, stdout, reader, written, pc, args, flagVars,
                   ctxVars, rs, tun, engineVars, sigVars, via, sdVars, proc,
                   sinkVars>>

\* Lines 77, 80-83: the buffer is full and holds no newline, scanner.Scan()
\* returns false with ErrTooLong, the loop ends, the error is printed to
\* os.Stderr (the pipe again) and the goroutine returns.
ReaderStop(c) ==
    /\ proc = "up" /\ reader[c] = "scanning"
    /\ pipe[c] # << >> /\ Head(pipe[c]).len >= MaxScanTokenSize
    /\ reader' = [reader EXCEPT ![c] = "stopped"]
    /\ pipe' = [pipe EXCEPT ![stdout] = Append(@, ScannerErrLine)]
    /\ written' = Append(written, ScannerErrLine)
    /\ UNCHANGED <<inputVars, stdout, pc, args, flagVars, ctxVars, rs, tun,
                   engineVars, sigVars, via, sdVars, proc, logMessages,
                   sinkVars>>

\* ---------------------------------------------------------- specifications
InitState ==
    /\ pc = [c \in Calls |-> "idle"]
    /\ args = [c \in Calls |-> << >>]
    /\ fsVals = [c \in Calls |-> FsDefaults]
    /\ gFlags = 0
    /\ rttDefined = FALSE
    /\ rtt = << >>
    /\ cancelFunc = 0
    /\ ctxDone = [c \in Calls |-> FALSE]
    /\ wg = 0
    /\ rs = [c \in Calls |-> "none"]
    /\ tun = [c \in Calls |-> "none"]
    /\ tunArgs = [c \in Calls |-> << >>]
    /\ lwipOpts = [c \in Calls |-> << >>]
    /\ stops = [c \in Calls |-> 0]
    /\ sigReg = {}
    /\ sigBuf = [c \in Calls |-> 0]
    /\ sigCount = 0
    /\ sigRunning = [c \in Calls |-> FALSE]
    /\ via = [c \in Calls |-> "none"]
    /\ sd = "idle"
    /\ sdNoSession = FALSE
    /\ sdEarly = FALSE
    /\ proc = "up"
    /\ logMessages = << >>
    /\ mu = 0
    /\ wr = [w \in Writers |-> "idle"]
    /\ dr = "idle"
    /\ drained = << >>
    /\ acquired = << >>
    /\ logs = << >>
    /\ stdout = 0
    /\ reader = [c \in Calls |-> "none"]
    /\ pipe = [c \in Calls |-> << >>]
    /\ written = << >>

\* The argument strings the sessions of the lifecycle model are started with.
SessionInputs ==
    { << >>,
      << [opt |-> "b", val |-> WildBind, text |-> <<"-", "b", SP>> \o WildBind, valid |-> TRUE] >>,
      << [opt |-> "rtt", val |-> <<"abc">>, text |-> <<"-", "rtt", SP, "abc">>, valid |-> FALSE] >> }

\* Call 1 is made with any of them, call 2 with the empty string.
OneOf(inputs) == {[c \in Calls |-> IF c = 1 THEN x ELSE << >>] : x \in inputs}

Init ==
    /\ supplied \in OneOf(SessionInputs)
    /\ argStr = [c \in Calls |-> Render(supplied[c])]
    /\ InitState

RunWarp(c) ==
    \/ Begin(c) \/ FlagIntLookup(c) \/ FlagIntStore(c)
    \/ Parse(c) \/ Launch(c) \/ Notify(c) \/ SelectSignal(c)
    \/ CancelOnSignal(c) \/ SelectDone(c) \/ WaitReturn(c)

runServer(c) ==
    \/ StartEngines(c) \/ LwipStop(c) \/ CleanupDone(c)

Tunnel(c) == TunnelCall(c) \/ TunnelReturn(c)

Shutdown == ShutdownCheck \/ ShutdownCancel \/ ShutdownExit

Next ==
    \/ \E c \in Calls : RunWarp(c) \/ runServer(c) \/ Tunnel(c)
    \/ Signal
    \/ Shutdown

Spec == Init /\ [][Next]_vars

\* Tokenizing and resolving: one RunWarp call on any generated argument
\* string, followed up to the call of the tunnel engine.
InitParse ==
    /\ supplied \in OneOf(ItemSeqs(Items, MaxItems))
    /\ argStr = [c \in Calls |-> Render(supplied[c])]
    /\ InitState

NextParse ==
    \/ Begin(1) \/ FlagIntLookup(1) \/ FlagIntStore(1)
    \/ Parse(1) \/ Launch(1) \/ StartEngines(1) \/ TunnelCall(1)

SpecParse == InitParse /\ [][NextParse]_vars

\* The log sink under concurrent host writers and GetLogMessages calls.
InitLog ==
    /\ supplied = [c \in Calls |-> << >>]
    /\ argStr = [c \in Calls |-> << >>]
    /\ InitState

NextLog ==
    \/ \E w \in Writers : WriteLock(w) \/ WriteAppend(w) \/ WriteUnlock(w)
    \/ DrainLock \/ DrainJoin \/ DrainClear \/ DrainUnlock

SpecLog == InitLog /\ [][NextLog]_vars

\* The redirected standard streams: one RunWarp call, the components that
\* write lines, and the reader goroutine.
NextPipe ==
    \/ Begin(1) \/ StdWrite \/ ReaderAppend(1) \/ ReaderStop(1)

SpecPipe == InitLog /\ [][NextPipe]_vars

\* =================================================================== claims
Launched(c) == rs[c] # "none"

\* C1: when a session has been started with RunWarp and Shutdown is then
\* invoked, lwip.Stop is invoked exactly once, and RunWarp returns only
\* after that stop call has completed.  Stated at the end of the Shutdown
\* call (the process has exited through line 170) and at RunWarp's return.
C1_ShutdownStopsOnce ==
    \A c \in Calls :
        /\ (proc = "shutdown" /\ Launched(c)) => stops[c] = 1
        /\ pc[c] = "returned" => stops[c] = 1

\* C2: whenever RunWarp has returned, lwip.Stop completed first, wg.Done
\* came after it, and the return came after wg.Done: a runServer that has
\* released the wait group has stopped the engine exactly once, one that has
\* not yet run its cleanup has not stopped it, and RunWarp never is past
\* wg.Wait while its runServer is live.
C2_StopThenDoneThenReturn ==
    \A c \in Calls :
        /\ rs[c] \in {"stopped", "exited"} => stops[c] = 1
        /\ rs[c] \in {"none", "start", "waitctx"} => stops[c] = 0
        /\ pc[c] = "returned" => rs[c] = "exited"

C2_Witness == \E c \in Calls : pc[c] = "returned" /\ via[c] = "signal" /\ stops[c] = 1

\* C3: a SIGINT/SIGTERM delivered while a session is Running does not
\* terminate the process; it is taken up by the session (queued on its
\* channel, or already received by its select), which is how the context
\* comes to be cancelled and RunWarp to return.
C3_SignalIsGraceful ==
    \A c \in Calls :
        sigRunning[c] =>
            /\ proc # "signal"
            /\ sigBuf[c] > 0 \/ via[c] = "signal" \/ ctxDone[c]

\* C4: a Shutdown call made while no session is active (before any RunWarp
\* call, or after RunWarp has returned) is a no-op: it does not go on to
\* cancel anything and does not terminate the process.
C4_IdleShutdownIsNoOp == sdNoSession => proc # "shutdown"

\* Occurrences of x in the sequence s.
RECURSIVE Count(_, _)
Count(x, s) ==
    IF s = << >> THEN 0
    ELSE (IF Head(s) = x THEN 1 ELSE 0) + Count(x, Tail(s))

\* C5: the first GetLogMessages call made after all N writers have finished
\* returns a string that contains each of the N lines exactly once, and the
\* GetLogMessages call that follows it returns the empty string.
C5_DrainAfterWriters ==
    (Len(drained) >= 1 /\ drained[1].after) =>
        /\ \A w \in Writers : Count(Line(w), drained[1].logs) = 1
        /\ Len(drained) >= 2 => drained[2].logs = << >>

C5_Witness ==
    /\ Len(drained) >= 2 /\ drained[1].after
    /\ \A w \in Writers : wr[w] = "done"

\* C6: RunWarp does not get past its select, and so does not return, unless
\* a signal has been delivered to the process or its context has been
\* cancelled.
C6_BlocksUntilSignalOrCancel ==
    \A c \in Calls :
        (sigCount = 0 /\ ~ctxDone[c]) => pc[c] \notin {"cancel", "wait", "returned"}

C6_Witness == \E c \in Calls : pc[c] = "returned" /\ via[c] = "ctx"

\* Configuration resolution of an argument string fails.
ResolutionFails(str) == fsParse(parseCommandLine(str), FsDefaults).err # "nil"

BogusOnly == Render(<< [opt |-> "bogus", val |-> <<"true">>, text |-> <<"-", "bogus">>, valid |-> FALSE] >>)
RttAbcOnly == Render(<< [opt |-> "rtt", val |-> <<"abc">>, text |-> <<"-", "rtt", SP, "abc">>, valid |-> FALSE] >>)

\* C7: for an argument string on which resolution fails (among them -bogus
\* and -rtt abc), RunWarp never gets past fs.Parse: runServer is not
\* dispatched and neither app.RunWarp nor lwip.Start is invoked.
C7_FailedResolutionAborts ==
    /\ ResolutionFails(BogusOnly) /\ ResolutionFails(RttAbcOnly)
    /\ \A c \in Calls :
          ResolutionFails(argStr[c]) =>
              /\ pc[c] \notin PastParse
              /\ rs[c] = "none" /\ tun[c] = "none"
              /\ tunArgs[c] = << >> /\ lwipOpts[c] = << >>

C7_Witness == pc[1] = "usage" /\ argStr[1] = RttAbcOnly

\* The configuration call c has resolved: its flag variables and *rtt.
Resolved(c) ==
    [v |-> fsVals[c].v, b |-> fsVals[c].b, e |-> fsVals[c].e, k |-> fsVals[c].k,
     country |-> fsVals[c].country, cfon |-> fsVals[c].cfon,
     gool |-> fsVals[c].gool, scan |-> fsVals[c].scan,
     rtt |-> IF rtt = << >> THEN 0 ELSE rtt[1]]

\* The configuration app.RunWarp was called with by the session of call c.
PassedToTunnel(c) ==
    LET a == tunArgs[c][1]
    IN  [v |-> a.cfg.v, b |-> a.cfg.b, e |-> a.cfg.e, k |-> a.cfg.k,
         country |-> a.cfg.country, cfon |-> a.cfg.cfon,
         gool |-> a.cfg.gool, scan |-> a.cfg.scan,
         rtt |-> IF a.rtt = << >> THEN 0 ELSE a.rtt[1]]

AllValid(items) == \A i \in 1..Len(items) : items[i] \in ValidItems

\* C8: for an argument string composed of valid flag/value pairs over the
\* recognized options, resolution succeeds and the resolved configuration
\* has every supplied option at its supplied value and every other option
\* at its default.
C8_ValidPairsResolve ==
    \A c \in Calls :
        AllValid(supplied[c]) =>
            /\ pc[c] \notin {"usage", "help"}
            /\ (pc[c] \in PastParse =>
                    Resolved(c) = Requested(supplied[c], FullDefaults))

\* C9: resolving an argument string with zero flags yields the full default
\* configuration, and app.RunWarp is called with those values.
C9_ZeroFlagsDefaults ==
    \A c \in Calls :
        argStr[c] = << >> =>
            /\ pc[c] \notin {"usage", "help"}
            /\ (pc[c] \in PastParse => Resolved(c) = FullDefaults)
            /\ (tunArgs[c] # << >> => PassedToTunnel(c) = FullDefaults)

C9_Witness == argStr[1] = << >> /\ tunArgs[1] # << >>

ErrLine == "tunnel engine error"

\* C10: when the tunnel engine returns an error, the error is appended to
\* the log and nothing else changes (no context is cancelled, the forwarding
\* engine is not stopped, no RunWarp call or runServer task moves, the
\* process lives on); and a session whose tunnel engine has failed stays
\* Running as long as no signal arrives and Shutdown is not called.
C10_TunnelErrorOnlyLogged ==
    /\ [][\A c \in Calls :
            (tun[c] # "failed" /\ tun'[c] = "failed") =>
                /\ logMessages' = Append(logMessages, ErrLine)
                /\ UNCHANGED <<pc, ctxVars, rs, stops, lwipOpts, proc, sd>>]_vars
    /\ [](\A c \in Calls :
            (tun[c] = "failed" /\ sigCount = 0 /\ sd = "idle") =>
                /\ ~ctxDone[c] /\ stops[c] = 0
                /\ rs[c] = "waitctx" /\ pc[c] \in {"notify", "select"})

C10_Witness ==
    \E c \in Calls : tun[c] = "failed" /\ pc[c] = "select" /\ proc = "up"
                     /\ sigCount = 0 /\ sd = "idle"


\* The runServer goroutines that are dispatched and have not finished.
LiveServers == {c \in Calls : rs[c] \notin {"none", "exited"}}

\* C11: in every reachable state, under any interleaving of RunWarp calls,
\* at most one runServer goroutine is dispatched and unfinished, and the
\* global cancelFunc cancels the context of that live session.
C11_OneLiveSession ==
    /\ Cardinality(LiveServers) <= 1
    /\ \A c \in LiveServers : cancelFunc = c


\* RunWarp has called parseCommandLine (line 88 is past os.Chdir).
Tokenized(c) == pc[c] \notin {"idle", "fatal"}

\* The tokens an item stands for: its flag and, unless it is a bare flag,
\* its value without the quotes.
FlagToken(item) ==
    IF item.text[2] = "-" THEN <<"-", "-", item.opt>> ELSE <<"-", item.opt>>

IsBare(item) == item.text = FlagToken(item)

ItemTokens(item) ==
    IF IsBare(item) THEN <<FlagToken(item)>> ELSE <<FlagToken(item), item.val>>

RECURSIVE Tokens(_)
Tokens(items) ==
    IF items = << >> THEN << >> ELSE ItemTokens(items[1]) \o Tokens(Tail(items))

\* The item gives its value after a single space.
SpaceValued(item) ==
    ~IsBare(item) /\ item.text[Len(FlagToken(item)) + 1] = SP

\* A bare flag is directly followed by a flag with a value after a space.
BareThenValued(items) ==
    \E i \in 1..(Len(items) - 1) : IsBare(items[i]) /\ SpaceValued(items[i + 1])

\* C12: when a bare flag is followed by another flag with a value (as in
\* -v -b X), parseCommandLine emits the three tokens -v, -b, X: the second
\* flag as a flag and X as its value.
C12_FlagIsNotAValue ==
    (Tokenized(1) /\ AllValid(supplied[1]) /\ BareThenValued(supplied[1]))
        => args[1] = Tokens(supplied[1])


\* The item's value is wrapped in matching quotes and contains a space.
QuotedSpaced(item) ==
    LET q == Len(FlagToken(item)) + 2
    IN  /\ Len(item.text) > q
        /\ item.text[q] \in {DQ, SQ}
        /\ item.text[Len(item.text)] = item.text[q]
        /\ item.val = SubSeq(item.text, q + 1, Len(item.text) - 1)
        /\ \E k \in 1..Len(item.val) : item.val[k] = SP

\* Item i is the last of the string that names its option.
LastForOption(items, i) ==
    \A j \in (i + 1)..Len(items) : items[j].opt # items[i].opt

\* C13: a value wrapped in matching quotes that contains spaces is emitted
\* by parseCommandLine as one token after its flag, quotes stripped and
\* spaces kept, and a resolution that succeeds assigns that text to the
\* option.
C13_QuotedValueKept ==
    \A i \in 1..Len(supplied[1]) :
        LET item == supplied[1][i]
        IN  (Tokenized(1) /\ AllValid(supplied[1]) /\ QuotedSpaced(item))
                => /\ \E j \in 1..(Len(args[1]) - 1) :
                          args[1][j] = FlagToken(item) /\ args[1][j + 1] = item.val
                   /\ (pc[1] \in PastParse /\ LastForOption(supplied[1], i))
                          => fsVals[1][item.opt] = item.val


\* Where the text of item i starts in the rendered string, less one.
Offset(items, i) ==
    IF i = 1 THEN 0 ELSE Len(Render(SubSeq(items, 1, i - 1))) + 1

\* The value of item i opens, at position p of the string, with a quote
\* that is never closed.
OpensUnclosed(str, items, i, p) ==
    /\ p = Offset(items, i) + Len(FlagToken(items[i])) + 2
    /\ p <= Len(str)
    /\ str[p] \in {DQ, SQ}
    /\ \A k \in (p + 1)..Len(str) : str[k] # str[p]

\* C14: for a flag value that opens with a quote that is never closed,
\* parseCommandLine emits as the flag's value the whole remainder of the
\* input after the quote, spaces and later words included.
C14_UnclosedQuoteTakesRest ==
    \A i \in 1..Len(supplied[1]) : \A p \in 1..Len(argStr[1]) :
        (Tokenized(1) /\ OpensUnclosed(argStr[1], supplied[1], i, p))
            => \E j \in 1..(Len(args[1]) - 1) :
                   /\ args[1][j] = FlagToken(supplied[1][i])
                   /\ args[1][j + 1] = SubSeq(argStr[1], p + 1, Len(argStr[1]))


\* The texts of a sequence of lines.
Texts(lines) == [i \in 1..Len(lines) |-> lines[i].text]

\* C15: after RunWarp has redirected the standard streams, the reader
\* goroutine does not stop while the process lives (the pipe is never
\* closed), and what it has appended to the log buffer plus what is still
\* in the pipe is every line written, one entry each, in the order written.
\* This is the part of the claim a finite run can refute; with a reader
\* that never stops it gives "every line is eventually appended".
C15_ReaderNeverStops ==
    (proc = "up" /\ reader[1] # "none")
        => /\ reader[1] = "scanning"
           /\ logMessages \o Texts(pipe[1]) = Texts(written)


\* RunWarp has dispatched runServer (line 114 is behind it).
PastLaunch == {"notify", "select", "cancel", "wait", "returned"}

\* C16: within one session runServer calls lwip.Start before it waits on
\* the context; lwip.Stop is called only when the context is cancelled and
\* lwip.Start has returned; and a RunWarp call dispatches runServer exactly
\* when it starts successfully, once.
C16_RunServerOrder ==
    /\ [](\A c \in Calls :
            /\ rs[c] \in {"waitctx", "stopped", "exited"} => lwipOpts[c] # << >>
            /\ stops[c] > 0 => ctxDone[c] /\ lwipOpts[c] # << >>
            /\ Launched(c) <=> pc[c] \in PastLaunch)
    /\ [][\A c \in Calls :
            /\ stops'[c] # stops[c] => ctxDone[c] /\ lwipOpts[c] # << >>
            /\ (rs'[c] = "start" /\ rs[c] # "start")
                   => rs[c] = "none" /\ pc[c] = "launch"]_vars

C16_Witness ==
    \E c \in Calls : stops[c] = 1 /\ rs[c] = "exited" /\ pc[c] = "returned"


\* The options RunWarp's session handed to lwip.Start.
Handed(c) == lwipOpts[c][1]

\* C17 as the specification states it: the SOCKS server address handed to
\* lwip.Start is the resolved bind address itself.
C17_SocksIsResolvedBind ==
    lwipOpts[1] # << >> => Handed(1).Socks5Server = fsVals[1].b

\* C17, amended: the SOCKS server address handed to lwip.Start is the
\* resolved bind address with every 0.0.0.0 in it replaced by 127.0.0.1,
\* the tunnel engine is passed the resolved bind address unchanged, and the
\* other options are FakeIPRange "24.0.0.0/8", MTU 0, EnableIPv6 true,
\* AllowLan true and the caller's TUN file descriptor.
C17_SocksIsLoopbackedBind ==
    /\ lwipOpts[1] # << >> =>
           Handed(1) = [TunFd |-> TunFd(1),
                        Socks5Server |-> Replace(fsVals[1].b, AnyAddr, Loopback),
                        FakeIPRange |-> "24.0.0.0/8", MTU |-> 0,
                        EnableIPv6 |-> TRUE, AllowLan |-> TRUE]
    /\ tunArgs[1] # << >> => PassedToTunnel(1).b = fsVals[1].b

C17_Witness ==
    /\ lwipOpts[1] # << >> /\ tunArgs[1] # << >>
    /\ fsVals[1].b = WildBind
    /\ Handed(1).Socks5Server = Loopback \o <<":", "1080">>


\* The entries of a GetLogMessages result: its text split at the newlines.
Entries(joined) == SelectSeq(joined, LAMBDA x : x # "\n")

RECURSIVE DrainedEntries(_)
DrainedEntries(results) ==
    IF results = << >> THEN << >>
    ELSE Entries(results[1].logs) \o DrainedEntries(Tail(results))

\* The lines of the Write calls that have appended, in the order the calls
\* locked mu (a call that has locked mu may not have appended yet).
AppendedInLockOrder ==
    LET done == SelectSeq(acquired, LAMBDA w : wr[w] # "locked")
    IN  [i \in 1..Len(done) |-> Line(done[i])]

\* C18: under any interleaving of logWriter.Write and GetLogMessages calls,
\* the entries of the successive GetLogMessages results followed by what
\* is still buffered are exactly the written entries, each once, in the
\* order their Write calls acquired the lock.
C18_NoEntryLostOrDuplicated ==
    DrainedEntries(drained) \o logMessages = AppendedInLockOrder

C18_Witness ==
    /\ Len(drained) = 2
    /\ drained[1].logs # << >> /\ drained[2].logs # << >>
    /\ logMessages # << >>
    /\ \A w \in Writers : wr[w] = "done"


\* C19: a Shutdown call that finds cancelFunc nil while a RunWarp call is
\* still starting changes nothing and returns (the request is not
\* remembered); and as long as no signal has been delivered and no later
\* Shutdown call has been made, no session's context is cancelled, no
\* RunWarp call gets past its select and the process is not ended by
\* Shutdown or a signal.
C19_EarlyShutdownIsNoOp ==
    /\ [][(ShutdownCheck /\ cancelFunc = 0 /\ \E c \in Calls : Starting(c))
              => UNCHANGED <<pc, args, flagVars, ctxVars, rs, tun, engineVars,
                             sigVars, via, sd, proc, logMessages>>]_vars
    /\ []((sdEarly /\ sigCount = 0)
              => /\ sd = "idle"
                 /\ proc \notin {"shutdown", "signal"}
                 /\ \A c \in Calls :
                        ~ctxDone[c] /\ pc[c] \notin {"cancel", "wait", "returned"})

C19_Witness ==
    /\ sdEarly /\ sigCount = 0 /\ proc = "up"
    /\ \E c \in Calls :
          /\ Running(c) /\ rs[c] = "waitctx"
          /\ \A d \in Calls \ {c} : pc[d] = "idle"


\* C20: in every session whose runServer calls the tunnel engine, the rtt
\* argument of app.RunWarp is the default 1000, whatever the argument
\* string was.
C20_RttIsAlwaysDefault ==
    \A c \in Calls : tunArgs[c] # << >> => tunArgs[c][1].rtt = <<1000>>

C20_Witness ==
    /\ tunArgs[1] # << >> /\ tunArgs[1][1].rtt = <<1000>>
    /\ supplied[1] # << >>

=============================================================================
